---- MODULE Spec2Model ----
(***************************************************************************)
(* investpy/indices.py: the index catalog builder (retrieve_indices), the  *)
(* detail fetcher (retrieve_index_info), the two country listers and the   *)
(* query layer (index_countries_as_list, indices_as_df, indices_as_list,   *)
(* indices_as_dict) over the three resource files.                         *)
(*                                                                         *)
(* A Python string is a sequence of tokens.  A token is one character, or  *)
(* an indivisible chunk of characters that no operation of the module      *)
(* splits ("/indices/", " (CFD)", ...).  Country names are written         *)
(* character by character, since they are lowercased, ASCII-folded,        *)
(* trimmed and ordered.  The empty string is <<>>.                         *)
(***************************************************************************)
EXTENDS Integers, Sequences, FiniteSets, TLC

\* ------------------------------------------------------------------ bounds

\* most <tr> rows of one listing page
MaxRows == 2
\* most records the accumulating list `results` holds in a modelled build
MaxResults == 2
\* most records of the builds whose catalogs the query layer is run on
MaxCatalogRows == 2

\* ------------------------------------------------------------ null markers

\* Python's None and pandas' NaN (a missing cell of a table read from a file)
None == <<"<None>">>
NaN == <<"<NaN>">>

IsNull(v) == v = None \/ v = NaN

\* -------------------------------------------------------------- characters

UpperCase ==
  <<"A","B","C","D","E","F","G","H","I","J","K","L","M",
    "N","O","P","Q","R","S","T","U","V","W","X","Y","Z">>

LowerCase ==
  <<"a","b","c","d","e","f","g","h","i","j","k","l","m",
    "n","o","p","q","r","s","t","u","v","w","x","y","z">>

IndexIn(seq, ch) == CHOOSE i \in 1..Len(seq) : seq[i] = ch

IsIn(seq, ch) == \E i \in 1..Len(seq) : seq[i] = ch

\* ord(ch): the code point Python orders strings by
ord(ch) ==
  IF IsIn(UpperCase, ch) THEN 64 + IndexIn(UpperCase, ch)
  ELSE IF IsIn(LowerCase, ch) THEN 96 + IndexIn(LowerCase, ch)
  ELSE CASE ch = " " -> 32
         [] ch = "-" -> 45
         [] ch = "E-acute" -> 201
         [] ch = "e-acute" -> 233

\* str.lower() on one character
lower_ch(ch) ==
  IF IsIn(UpperCase, ch) THEN LowerCase[IndexIn(UpperCase, ch)]
  ELSE IF ch = "E-acute" THEN "e-acute"
  ELSE ch

\* unidecode.unidecode() on one character: ASCII is kept, a letter with a
\* diacritic becomes its base letter
unidecode_ch(ch) ==
  CASE ch = "E-acute" -> "E"
    [] ch = "e-acute" -> "e"
    [] OTHER -> ch

\* str.lower()
lower(s) == [i \in 1..Len(s) |-> lower_ch(s[i])]

\* unidecode.unidecode()
unidecode(s) == [i \in 1..Len(s) |-> unidecode_ch(s[i])]

RECURSIVE lstrip(_)
lstrip(s) == IF s # <<>> /\ Head(s) = " " THEN lstrip(Tail(s)) ELSE s

RECURSIVE rstrip(_)
rstrip(s) ==
  IF s # <<>> /\ s[Len(s)] = " " THEN rstrip(SubSeq(s, 1, Len(s) - 1)) ELSE s

\* str.strip()
strip(s) == rstrip(lstrip(s))

\* str.replace(old, new): leftmost, non-overlapping occurrences
RECURSIVE replace(_, _, _)
replace(s, old, new) ==
  IF Len(s) < Len(old) THEN s
  ELSE IF SubSeq(s, 1, Len(old)) = old
       THEN new \o replace(SubSeq(s, Len(old) + 1, Len(s)), old, new)
       ELSE <<Head(s)>> \o replace(Tail(s), old, new)

\* str.__contains__(sub)
contains(s, sub) ==
  \E i \in 1..(Len(s) - Len(sub) + 1) : SubSeq(s, i, i + Len(sub) - 1) = sub

\* Python's < on strings: lexicographic by code point, a proper prefix first
RECURSIVE str_lt(_, _)
str_lt(a, b) ==
  IF b = <<>> THEN FALSE
  ELSE IF a = <<>> THEN TRUE
  ELSE IF Head(a) = Head(b) THEN str_lt(Tail(a), Tail(b))
  ELSE ord(Head(a)) < ord(Head(b))

\* ---------------------------------------------------------------- literals

S_indices == <<"/indices/">>
S_dash_indices == <<"-indices">>
S_world_indices == <<"/indices/", "w","o","r","l","d", "-indices">>
S_global_indices == <<"/indices/global-indices">>
S_c_id == <<"?c_id=">>
S_pair == <<"pair_">>
S_CFD == <<" (CFD)">>
S_uk == <<"u","k">>
S_usa == <<"u","s","a">>
S_united_kingdom == <<"u","n","i","t","e","d"," ","k","i","n","g","d","o","m">>
S_united_states == <<"u","n","i","t","e","d"," ","s","t","a","t","e","s">>
S_world == <<"w","o","r","l","d">>
S_Euro_Zone == <<"E","u","r","o"," ","Z","o","n","e">>

\* the `class` of each category filter of a pass, in the order of its
\* indices_filters list
Pass1Filters ==
  << <<"major_indices">>, <<"primary_sectors">>, <<"additional_indices">>,
     <<"other_indices">> >>

Pass2Filters ==
  << <<"major_indices">>, <<"primary_sectors">>, <<"bonds">>,
     <<"additional_indices">>, <<"other_indices">> >>

Pass3Filters ==
  << <<"major_indices">>, <<"primary_sectors">>, <<"bonds">>,
     <<"additional_indices">>, <<"other_indices">>, <<"commodities">> >>

WORLD_INDICES == <<"world_indices">>
GLOBAL_INDICES == <<"global_indices">>

\* the columns of the catalog, and those the query layer keeps
CatalogColumns ==
  <<"country", "name", "full_name", "tag", "id", "symbol", "currency", "class",
    "market">>

QueryColumns ==
  <<"country", "name", "full_name", "symbol", "currency", "class", "market">>

\* ----------------------------------------------- the provider's pages (input)

\* <a> elements of a listing row: href, title attribute, visible text
A_a1 == [href |-> <<"/indices/", "a">>, title |-> <<"A", " ", "One", " (CFD)">>,
         text |-> <<" ", "A1", " ">>]
\* the same index under another name
A_a2 == [href |-> <<"/indices/", "a">>, title |-> <<"A", " ", "Two">>,
         text |-> <<"A2">>]
A_b == [href |-> <<"/indices/", "b">>, title |-> <<"B", " (CFD)", " ">>,
        text |-> <<"B">>]
\* an index whose symbol is the letters NA
A_c == [href |-> <<"/indices/", "c">>, title |-> <<"C">>, text |-> <<"C">>]
\* a link that is not an index
A_eq == [href |-> <<"/equities/", "x">>, title |-> <<"X">>, text |-> <<"X">>]
\* an anchor without href
A_nohref == [href |-> None, title |-> <<"N">>, text |-> <<"N">>]

\* <tr> elements of a listing table: id attribute, the titles of the
\* td.flag/span elements, the <a> elements
RowTemplates ==
  { [id |-> <<"pair_", "1">>, flags |-> << <<>> >>, anchors |-> <<A_a1>>],
    [id |-> <<"pair_", "2">>, flags |-> << S_Euro_Zone >>,
     anchors |-> <<A_eq, A_a2>>],
    [id |-> <<"pair_", "3">>, flags |-> << <<" ", "A", "s", "E-acute", " ">> >>,
     anchors |-> <<A_b>>],
    [id |-> <<"pair_", "4">>, flags |-> <<>>, anchors |-> <<A_nohref>>],
    [id |-> <<"pair_", "5">>, flags |-> << <<>> >>,
     anchors |-> <<A_eq>>],
    [id |-> <<"pair_", "6">>, flags |-> << <<>> >>,
     anchors |-> <<A_c>>] }

\* the <tr> lists a listing page can hold
ListingPages == UNION { [1..n -> RowTemplates] : n \in 0..MaxRows }

\* the same, numbered
RECURSIVE Enumerate(_)
Enumerate(S) ==
  IF S = {} THEN <<>>
  ELSE LET e == CHOOSE e \in S : TRUE IN <<e>> \o Enumerate(S \ {e})

ListingPage == Enumerate(ListingPages)

PageNumbers == 1..Len(ListingPage)

\* the detail page of an index: the text of the h1 elements of the instrument
\* head and of the bold spans of the bottom block
DetailPage(tag) ==
  IF tag = <<"a">>
  THEN [h1 |-> << <<"A", " ", "Index", " ", "(", "IDX", ")", " ">> >>,
        bold |-> << <<"USD">> >>]
  ELSE IF tag = <<"c">>
  THEN [h1 |-> << <<"C", " ", "(", "NA", ")">> >>, bold |-> << <<"USD">> >>]
  ELSE [h1 |-> << <<"B", " ", "(", "net", ")", " ", "Index">> >>,
        bold |-> <<>>]

\* <option> elements of the country selector of /indices/
O_world == [value |-> S_world_indices, text |-> <<"W">>]
O_uk == [value |-> <<"/indices/", "u","k", "-indices">>, text |-> <<"U","K">>]
O_at == [value |-> <<"/indices/", " ", "a","-","t", "-indices">>,
         text |-> <<"A","t">>]

IndexOptionPages == { <<O_world>>, <<O_world, O_uk>>, <<O_world, O_uk, O_at>> }

\* <option> elements of the country selector of /indices/global-indices
G_all == [value |-> S_global_indices, text |-> <<"A","l","l">>]
G_de == [value |-> <<"/indices/global-indices", "?c_id=", "4">>,
         text |-> <<" ", "D", "E-acute", " ">>]
G_at == [value |-> <<"/indices/global-indices", "?c_id=", "5">>,
         text |-> <<"A","t">>]

GlobalOptionPages == { <<G_all>>, <<G_all, G_de>>, <<G_all, G_de, G_at>> }

\* the status codes a GET answers with
StatusCodes == {200, 503}

\* ------------------------------------------------------------ pandas tables

\* a DataFrame: its row labels and its rows (records of cells); a DataFrame
\* made of an empty list has no columns
DataFrame(records) ==
  [index |-> [i \in 1..Len(records) |-> i - 1], rows |-> records,
   columns |-> IF records = <<>> THEN {} ELSE DOMAIN records[1]]

\* df.where(pd.notnull(df), None)
where_notnull(df) ==
  [df EXCEPT !.rows =
     [i \in 1..Len(df.rows) |->
        [c \in DOMAIN df.rows[i] |->
           IF IsNull(df.rows[i][c]) THEN None ELSE df.rows[i][c]]]]

\* the members of a set of positions, in increasing order
RECURSIVE Ascending(_)
Ascending(S) ==
  IF S = {} THEN <<>>
  ELSE LET m == CHOOSE i \in S : \A j \in S : i <= j
       IN <<m>> \o Ascending(S \ {m})

\* the rows of df at the positions pos, with their labels
take(df, pos) ==
  [df EXCEPT !.index = [k \in 1..Len(pos) |-> df.index[pos[k]]],
             !.rows = [k \in 1..Len(pos) |-> df.rows[pos[k]]]]

\* a finalization that leaves the duplicates in
keep_duplicates(df) == df

\* df.drop_duplicates(subset="tag", keep='last')
drop_duplicates_last(df) ==
  take(df, Ascending({ i \in 1..Len(df.rows) :
                         \A j \in (i + 1)..Len(df.rows) :
                           df.rows[j].tag # df.rows[i].tag }))

\* df.drop_duplicates(subset="tag", keep='first')
drop_duplicates(df) ==
  take(df, Ascending({ i \in 1..Len(df.rows) :
                         \A j \in 1..(i - 1) : df.rows[j].tag # df.rows[i].tag }))

\* the order sort_values gives two cells: nulls last
cell_le(a, b) ==
  IF IsNull(b) THEN TRUE
  ELSE IF IsNull(a) THEN FALSE
  ELSE a = b \/ str_lt(a, b)

\* the arrangements of n positions
Arrangements(n) ==
  { p \in [1..n -> 1..n] : \A i, j \in 1..n : i # j => p[i] # p[j] }

\* a finalization that leaves the rows in the order of extraction
unsorted(df) == {df}

\* df.sort_values('country', ascending=True): quicksort is not stable, so
\* every arrangement in order is a possible outcome
sort_values(df) ==
  { take(df, p) : p \in
      { q \in Arrangements(Len(df.rows)) :
          \A i \in 1..(Len(df.rows) - 1) :
            cell_le(df.rows[q[i]].country, df.rows[q[i + 1]].country) } }

\* df.reset_index(drop=True)
reset_index(df) == [df EXCEPT !.index = [i \in 1..Len(df.rows) |-> i - 1]]

\* df.drop(columns=['tag', 'id'])
drop_tag_id(df) ==
  [df EXCEPT !.rows =
     [i \in 1..Len(df.rows) |->
        [c \in (DOMAIN df.rows[i]) \ {"tag", "id"} |-> df.rows[i][c]]],
             !.columns = df.columns \ {"tag", "id"}]

\* ------------------------------------------------------------- the files

\* a resource file that does not exist
Absent == [exists |-> FALSE, columns |-> {}, rows |-> <<>>]

\* the strings read_csv takes for a missing value
NaStrings == { <<>>, <<"NA">>, <<"NaN">>, <<"nan">>, <<"null">>, <<"N/A">> }

\* df.to_csv(file_, index=False): the header and one line per row; a missing
\* value is written as the empty field
to_csv(df) ==
  [exists |-> TRUE, columns |-> df.columns,
   rows |-> [i \in 1..Len(df.rows) |->
               [c \in DOMAIN df.rows[i] |->
                  IF IsNull(df.rows[i][c]) THEN <<>> ELSE df.rows[i][c]]]]

\* pd.read_csv(file): an empty field and the NA strings are read as NaN
read_csv(file) ==
  [index |-> [i \in 1..Len(file.rows) |-> i - 1],
   rows |-> [i \in 1..Len(file.rows) |->
               [c \in DOMAIN file.rows[i] |->
                  IF file.rows[i][c] \in NaStrings THEN NaN
                  ELSE file.rows[i][c]]],
   columns |-> file.columns]

\* ------------------------------------------------- retrieve_index_info

\* the tokens made only of characters of the class [a-zA-Z0-9\.\-\_\=]
InSymbolClass(t) ==
  \/ IsIn(UpperCase, t) \/ IsIn(LowerCase, t)
  \/ t \in {"IDX", "NA", "net", "Index", "USD", ".", "-", "_", "="}

\* re.compile(r"\([a-zA-Z0-9\.\-\_\=]*?\)$").search(val): the leftmost "("
\* that only characters of the class separate from a ")" ending val; None
\* when there is none
pattern_search(val) ==
  LET starts == { i \in 1..(Len(val) - 1) :
                    /\ val[i] = "("
                    /\ val[Len(val)] = ")"
                    /\ \A k \in (i + 1)..(Len(val) - 1) : InSymbolClass(val[k]) }
  IN IF starts = {} THEN None
     ELSE SubSeq(val, CHOOSE i \in starts : \A j \in starts : i <= j, Len(val))

\* result['symbol'] after the loop over the h1 elements seen so far
RECURSIVE symbol_of(_, _)
symbol_of(h1, symbol) ==
  IF h1 = <<>> THEN symbol
  ELSE LET res == IF Head(h1) # <<>> THEN pattern_search(strip(Head(h1)))
                  ELSE None
       IN symbol_of(Tail(h1),
                    IF res # None
                    THEN replace(replace(res, <<"(">>, <<>>), <<")">>, <<>>)
                    ELSE symbol)

\* result['currency'] after the loop over the bold spans seen so far
RECURSIVE currency_of(_, _)
currency_of(bold, currency) ==
  IF bold = <<>> THEN currency
  ELSE currency_of(Tail(bold), IF Head(bold) # <<>> THEN Head(bold) ELSE currency)

\* retrieve_index_info(tag), given a 200 answer holding the page
retrieve_index_info(page) ==
  [currency |-> currency_of(page.bold, None), symbol |-> symbol_of(page.h1, None)]

\* ------------------------------------------------ rows of a listing page

\* str(v)
str(v) == IF v = None THEN <<"None">> ELSE v

\* the <a> elements of a row whose href holds '/indices/'
index_anchors(elements_) ==
  LET is_index(a) == contains(str(a.href), S_indices)
  IN SelectSeq(elements_.anchors, is_index)

\* the dict `data` built for one <a> of one row
data(elements_, element_, country, class, market) ==
  LET tag_ == replace(element_.href, S_indices, <<>>)
      info == retrieve_index_info(DetailPage(tag_))
  IN [country |-> country,
      name |-> strip(element_.text),
      full_name |-> strip(replace(element_.title, S_CFD, <<>>)),
      tag |-> tag_,
      id |-> replace(elements_.id, S_pair, <<>>),
      symbol |-> info.symbol,
      currency |-> info.currency,
      class |-> class,
      market |-> market]

\* the records one row adds to `results`
row_records(elements_, country, class, market) ==
  LET as == index_anchors(elements_)
  IN [k \in 1..Len(as) |-> data(elements_, as[k], country, class, market)]

\* the title of the last td.flag/span of a row; None when it has none
flag_title(elements_) ==
  IF elements_.flags = <<>> THEN None
  ELSE elements_.flags[Len(elements_.flags)]

\* the region of a row of Pass 3 (defined when flag_title is not None:
\* None.strip() raises AttributeError)
region_of(elements_) ==
  LET region == flag_title(elements_)
  IN IF region = <<>> THEN S_world
     ELSE IF region = S_Euro_Zone THEN lower(region)
     ELSE unidecode(lower(strip(region)))

\* a Pass 1 that records the country as the file gives it
country_as_read(country) == country

\* the country Pass 1 records for a country of index_countries.csv
pass1_country(country) ==
  IF country = S_uk THEN S_united_kingdom
  ELSE IF country = S_usa THEN S_united_states
  ELSE country

\* the records the rows path_ add, in order, the k-th row under the country
\* countries_[k]
RECURSIVE rows_records(_, _, _, _)
rows_records(path_, countries_, class, market) ==
  IF path_ = <<>> THEN <<>>
  ELSE row_records(Head(path_), Head(countries_), class, market)
       \o rows_records(Tail(path_), Tail(countries_), class, market)

\* ------------------------------------------------------ country listers

RECURSIVE index_country_entries(_)
index_country_entries(path) ==
  IF path = <<>> THEN <<>>
  ELSE (IF Head(path).value # S_world_indices
        THEN << [country |->
                   strip(replace(replace(replace(Head(path).value,
                                                 S_indices, <<>>),
                                         S_dash_indices, <<>>),
                                 <<"-">>, <<" ">>)),
                 country_name |-> unidecode(lower(strip(Head(path).text)))] >>
        ELSE <<>>)
       \o index_country_entries(Tail(path))

\* the loop of retrieve_global_indices_countries: in test mode it breaks
\* after the first entry appended
RECURSIVE global_country_entries(_, _)
global_country_entries(path, test_mode) ==
  IF path = <<>> THEN <<>>
  ELSE IF Head(path).value # S_global_indices
       THEN << [id |-> replace(Head(path).value,
                               S_global_indices \o S_c_id, <<>>),
                country |-> unidecode(lower(strip(Head(path).text)))] >>
            \o (IF test_mode THEN <<>>
                ELSE global_country_entries(Tail(path), test_mode))
       ELSE global_country_entries(Tail(path), test_mode)

\* -------------------------------------------------------------- arguments

\* Python values of a flag argument: the two booleans, and a value that is
\* not a bool
PyTrue == "True"
PyFalse == "False"
NotBool == "1"
FlagArgs == {PyTrue, PyFalse, NotBool}

isinstance_bool(v) == v \in {PyTrue, PyFalse}

\* a `country` argument that is neither None nor a str, a `columns` argument
\* that is neither None nor a list
NotStr == <<"<int>">>
NotList == <<"<str>">>

isinstance_str(v) == v \notin {None, NotStr}

isinstance_list(v) == v \notin {None, NotList}

\* the `country` arguments of the query layer: None, a value that is no str,
\* a country as the catalog writes it, in another case and with a diacritic,
\* with a space before it, a region in the provider's case, an unknown one
CountryArgs ==
  { None, NotStr, <<"d","e">>, <<"D","E-acute">>, <<" ","d","e">>, S_Euro_Zone,
    <<"z","z">> }

\* the `columns` arguments: None, a value that is no list, lists of column
\* names of the query layer, and lists that name another column
ColumnArgs ==
  { None, NotList, <<"name">>, <<"country", "symbol">>, <<"bogus">>,
    <<"name", "tag">> }

\* the arguments of the calls made while indices.csv does not exist
RebuildCountryArgs == { None, NotStr, <<"d","e">> }

RebuildColumnArgs == { None, <<"name">>, <<"bogus">> }

RebuildFlagArgs == { PyFalse, NotBool }

\* ------------------------------------------------------------- the passes

Range(seq) == { seq[i] : i \in 1..Len(seq) }

\* the first k rows of a page
FirstRows(path_, k) == SubSeq(path_, 1, IF Len(path_) < k THEN Len(path_) ELSE k)

\* the rows of a page before the first one that has no flag title, all of
\* them when every row has one
RECURSIVE BeforeNoFlag(_)
BeforeNoFlag(path_) ==
  IF path_ = <<>> \/ flag_title(Head(path_)) = None THEN <<>>
  ELSE <<Head(path_)>> \o BeforeNoFlag(Tail(path_))

\* lines 105-131: the records a page of Pass 1 adds
pass1_page(path_, country, class) ==
  rows_records(path_, [k \in 1..Len(path_) |-> pass1_country(country)],
               class, WORLD_INDICES)

\* lines 190-219: the rows of a page Pass 2 goes through (in test mode the
\* row loop breaks after its first row), and the records they add
pass2_rows(path_, test_mode) == IF test_mode THEN FirstRows(path_, 1) ELSE path_

pass2_page(path_, country, class, test_mode) ==
  LET seen == pass2_rows(path_, test_mode)
  IN rows_records(seen, [k \in 1..Len(seen) |-> country], class, GLOBAL_INDICES)

\* lines 270-310: the rows of a page Pass 3 goes through (a row without flag
\* title raises AttributeError: None.strip()), and the records they add before
\* that
pass3_page(path_, class) ==
  LET seen == BeforeNoFlag(path_)
  IN rows_records(seen, [k \in 1..Len(seen) |-> region_of(seen[k])],
                  class, GLOBAL_INDICES)

\* a lister that stores its table whatever its test_mode
index_countries_always_written(status, path, test_mode) ==
  LET entries == index_country_entries(path)
  IN IF status # 200 THEN [raise |-> "ConnectionError"]
     ELSE IF Len(entries) <= 0 THEN [raise |-> "RuntimeError"]
     ELSE [raise |-> "", df |-> DataFrame(entries), write |-> TRUE]

\* retrieve_index_countries, lines 436-467, given the answer to its GET: what
\* it raises, or the table it returns and whether it writes it
index_countries_outcome(status, path, test_mode) ==
  LET entries == index_country_entries(path)
  IN IF status # 200 THEN [raise |-> "ConnectionError"]
     ELSE IF Len(entries) <= 0 THEN [raise |-> "RuntimeError"]
     ELSE [raise |-> "", df |-> DataFrame(entries), write |-> test_mode = PyFalse]

\* retrieve_global_indices_countries, lines 506-540, likewise
global_countries_outcome(status, path, test_mode) ==
  LET entries == global_country_entries(path, test_mode = PyTrue)
  IN IF status # 200 THEN [raise |-> "ConnectionError"]
     ELSE IF Len(entries) <= 0 THEN [raise |-> "RuntimeError"]
     ELSE [raise |-> "", df |-> DataFrame(entries), write |-> test_mode = PyFalse]

\* lines 319-324: the outcomes of the dedup, the sort and the index reset
finalize(results_) ==
  { reset_index(df) :
      df \in sort_values(drop_duplicates(where_notnull(DataFrame(results_)))) }

\* the files the country listers write
IndexCountryFiles ==
  { to_csv(DataFrame(index_country_entries(p))) :
      p \in { q \in IndexOptionPages : index_country_entries(q) # <<>> } }

GlobalCountryFiles ==
  { to_csv(DataFrame(global_country_entries(p, FALSE))) :
      p \in { q \in GlobalOptionPages : global_country_entries(q, FALSE) # <<>> } }

\* the country cells the passes read from those files
Pass1Countries ==
  UNION { { r.country : r \in Range(read_csv(f).rows) } : f \in IndexCountryFiles }

Pass2Countries ==
  UNION { { r.country : r \in Range(read_csv(f).rows) } : f \in GlobalCountryFiles }

\* pass1_page, pass2_page and pass3_page, tabulated over the pages
Pass1Records ==
  [n \in PageNumbers, country \in Pass1Countries, i \in 1..Len(Pass1Filters) |->
     pass1_page(ListingPage[n], country, Pass1Filters[i])]

Pass2Records ==
  [n \in PageNumbers, country \in Pass2Countries, i \in 1..Len(Pass2Filters),
   test_mode \in BOOLEAN |->
     pass2_page(ListingPage[n], country, Pass2Filters[i], test_mode)]

Pass3Records ==
  [n \in PageNumbers, i \in 1..Len(Pass3Filters) |->
     pass3_page(ListingPage[n], Pass3Filters[i])]

\* the rows each row loop goes through, page by page
PageRows == [n \in PageNumbers |-> Len(ListingPage[n])]

Pass2Rows ==
  [n \in PageNumbers, test_mode \in BOOLEAN |->
     Len(pass2_rows(ListingPage[n], test_mode))]

Pass3Rows ==
  [n \in PageNumbers |->
     IF Len(BeforeNoFlag(ListingPage[n])) < Len(ListingPage[n])
     THEN Len(BeforeNoFlag(ListingPage[n])) + 1
     ELSE Len(ListingPage[n])]

\* the pages of Pass 3 in which some row has no flag title
NoFlagPage ==
  [n \in PageNumbers |-> Len(BeforeNoFlag(ListingPage[n])) < Len(ListingPage[n])]

\* ------------------------------------------------------------- query layer

Raise(e) == [kind |-> "raise", error |-> e]
Return(k, v) == [kind |-> k, value |-> v]

\* Series.unique(): the values in order of first appearance
unique(seq) ==
  LET firsts == { i \in 1..Len(seq) : \A j \in 1..(i - 1) : seq[j] # seq[i] }
      pos == Ascending(firsts)
  IN [k \in 1..Len(pos) |-> seq[pos[k]]]

column(df, c) == [i \in 1..Len(df.rows) |-> df.rows[i][c]]

\* index_countries_as_list(), lines 558-568 (`indices is None` is never
\* true: read_csv returns a table)
index_countries_as_list_outcome(file) ==
  IF ~ file.exists THEN Raise("FileNotFoundError")
  ELSE Return("list", unique(column(read_csv(file), "country")))

\* indices[indices['country'] == value]: a NaN cell equals nothing
where_country(indices, value) ==
  take(indices, Ascending({ i \in 1..Len(indices.rows) :
                              /\ ~ IsNull(indices.rows[i].country)
                              /\ indices.rows[i].country = value }))

\* value in list: a NaN of the list equals no str
in_list(value, list) == \E i \in 1..Len(list) : ~ IsNull(list[i]) /\ list[i] = value

\* indices_as_df, lines 608-619, on the table `indices` read or built, with
\* indices.csv as it is then
indices_as_df_tail(indices, country, file) ==
  LET dropped == drop_tag_id(indices)
      known == index_countries_as_list_outcome(file)
  IN IF country = None THEN Return("DataFrame", reset_index(dropped))
     ELSE IF known.kind = "raise" THEN known
     ELSE IF in_list(unidecode(lower(country)), known.value)
     THEN Return("DataFrame",
                 reset_index(where_country(dropped, unidecode(lower(country)))))
     ELSE Return("None", None)

\* indices_as_list, lines 657-665
indices_as_list_tail(indices, country, file) ==
  LET dropped == drop_tag_id(indices)
      known == index_countries_as_list_outcome(file)
  IN IF country = None THEN Return("list", column(dropped, "name"))
     ELSE IF known.kind = "raise" THEN known
     ELSE IF in_list(unidecode(lower(country)), known.value)
     THEN Return("list",
                 column(where_country(dropped, unidecode(lower(country))), "name"))
     ELSE Return("None", None)

\* df[columns].to_dict(orient='records')
to_dict_records(df, columns) ==
  [i \in 1..Len(df.rows) |-> [c \in Range(columns) |-> df.rows[i][c]]]

\* json.dumps of a list of records: a str in quotes, None as null, NaN as NaN
json_dumps(records) ==
  [i \in 1..Len(records) |->
     [c \in DOMAIN records[i] |->
        IF records[i][c] = None THEN <<"null">>
        ELSE IF records[i][c] = NaN THEN <<"NaN">>
        ELSE <<"\"">> \o records[i][c] \o <<"\"">>]]

\* the columns left after drop(columns=['tag', 'id']), in the table's order
columns_tolist(df) == SelectSeq(CatalogColumns, LAMBDA c : c \in df.columns)

\* indices_as_dict, lines 719-743, on the table `indices` read or built
indices_as_dict_tail(indices, country, columns, as_json, file) ==
  LET dropped == drop_tag_id(indices)
      columns_ == IF columns = None THEN columns_tolist(dropped) ELSE columns
      known == index_countries_as_list_outcome(file)
      out(df) == IF as_json = PyTrue
                 THEN Return("json", json_dumps(to_dict_records(df, columns_)))
                 ELSE Return("dict", to_dict_records(df, columns_))
  IN IF columns # None /\ ~ isinstance_list(columns) THEN Raise("ValueError")
     ELSE IF ~ (\A c \in Range(columns_) : c \in dropped.columns)
     THEN Raise("ValueError")
     ELSE IF country = None THEN out(dropped)
     ELSE IF known.kind = "raise" THEN known
     ELSE IF in_list(country, known.value)
     THEN out(where_country(dropped, unidecode(lower(country))))
     ELSE Return("None", None)

\* ------------------------------------------------------------------- state

VARIABLES
  index_countries_csv,            \* resources/indices/index_countries.csv
  global_indices_countries_csv,   \* resources/indices/global_indices_countries.csv
  indices_csv,                    \* resources/indices/indices.csv
  pc,          \* where the call in progress stands
  call,        \* the public function called, with its arguments
  countries,   \* retrieve_indices: the country table of the running pass
  ci,          \* retrieve_indices: position in `countries`
  fi,          \* retrieve_indices: position in indices_filters
  results,     \* retrieve_indices: the accumulating list
  ret,         \* what the call returned or raised
  before,      \* the three files as they were when the call began
  gets,        \* the GET requests the call has made, by kind
  rows_seen    \* in test mode: the pass of the last listing page, and the
               \* number of its rows the row loop went through

files == <<index_countries_csv, global_indices_countries_csv, indices_csv>>

vars ==
  <<index_countries_csv, global_indices_countries_csv, indices_csv, pc, call,
    countries, ci, fi, results, ret, before, gets, rows_seen>>

NoCall == [fn |-> "none"]
Running == [kind |-> "running"]
NoGets == [pass1 |-> 0, pass2 |-> 0, pass3 |-> 0, info |-> 0, countries |-> 0]
NoRows == [pass |-> "none", rows |-> 0]
NoTable == DataFrame(<<>>)

\* the call unwinds with an exception: its locals are gone
Fail(e) ==
  /\ pc' = "raised"
  /\ ret' = Raise(e)
  /\ countries' = NoTable
  /\ ci' = 0
  /\ fi' = 0
  /\ results' = <<>>

\* the call returns: its locals are gone, but for `results`, which is kept as
\* the record of what the build extracted
Done(r) ==
  /\ pc' = "returned"
  /\ ret' = r
  /\ countries' = NoTable
  /\ ci' = 0
  /\ fi' = 0
  /\ results' = results

\* the call ends with the outcome r
Finish(r) == IF r.kind = "raise" THEN Fail(r.error) ELSE Done(r)

\* -------------------------------------------------------- retrieve_indices

\* lines 57-64: index_countries.csv is read, or IOError when it does not exist
BeginBuild ==
  IF ~ index_countries_csv.exists
  THEN Fail("IOError")
  ELSE /\ pc' = IF index_countries_csv.rows = <<>> THEN "countries2" ELSE "pass1"
       /\ countries' = read_csv(index_countries_csv)
       /\ ci' = 1
       /\ fi' = 1
       /\ results' = <<>>
       /\ ret' = Running

\* lines 54-64
retrieve_indices(test_mode) ==
  /\ pc = "idle"
  /\ call' = [fn |-> "retrieve_indices", test_mode |-> test_mode]
  /\ before' = files
  /\ IF ~ isinstance_bool(test_mode) THEN Fail("ValueError") ELSE BeginBuild
  /\ UNCHANGED <<files, gets, rows_seen>>

\* a build that never takes the branches of test_mode
never_test_mode == FALSE

\* the test_mode of the build in progress: indices_as_df, indices_as_list and
\* indices_as_dict call retrieve_indices() with the default, False
build_test_mode ==
  IF call.fn = "retrieve_indices" THEN call.test_mode = PyTrue ELSE FALSE

\* the GET of a detail page that is the first not to answer 200, among those
\* of the records `new`: 0 when every one answers 200
FirstBadInfo(new) == 0..Len(new)

InfoGets(new, bad) == IF bad = 0 THEN Len(new) ELSE bad

\* Pass 1, lines 66-134: one listing page, of the country countries[ci] and
\* the filter indices_filters[fi], with the detail page of each of its
\* records; in test mode the country loop breaks after its first country
Pass1Listing ==
  /\ pc = "pass1"
  /\ \E status \in StatusCodes :
       IF status # 200
       THEN /\ Fail("ConnectionError")
            /\ gets' = [gets EXCEPT !.pass1 = @ + 1]
            /\ UNCHANGED rows_seen
       ELSE \E n \in PageNumbers :
              LET new == Pass1Records[n, countries.rows[ci].country, fi]
                  leave == /\ fi = Len(Pass1Filters)
                           /\ build_test_mode \/ ci = Len(countries.rows)
              IN /\ Len(results) + Len(new) <= MaxResults
                 /\ \E bad \in FirstBadInfo(new) :
                      /\ gets' = [gets EXCEPT !.pass1 = @ + 1,
                                              !.info = @ + InfoGets(new, bad)]
                      /\ rows_seen' =
                           IF build_test_mode
                           THEN [pass |-> "pass1", rows |-> PageRows[n]]
                           ELSE rows_seen
                      /\ IF bad # 0
                         THEN Fail("ConnectionError")
                         ELSE /\ results' = results \o new
                              /\ fi' = IF fi = Len(Pass1Filters) THEN 1 ELSE fi + 1
                              /\ ci' = IF fi = Len(Pass1Filters) THEN ci + 1 ELSE ci
                              /\ pc' = IF leave THEN "countries2" ELSE "pass1"
                              /\ UNCHANGED <<countries, ret>>
  /\ UNCHANGED <<files, call, before>>

\* lines 136-144: global_indices_countries.csv is read, or, when it does not
\* exist, retrieve_index_countries(test_mode=False) is called (`countries is
\* None` is never true: the lister returns a table or raises)
LoadGlobalCountries ==
  /\ pc = "countries2"
  /\ IF global_indices_countries_csv.exists
     THEN /\ countries' = read_csv(global_indices_countries_csv)
          /\ pc' = IF global_indices_countries_csv.rows = <<>> THEN "pass3" ELSE "pass2"
          /\ ci' = 1
          /\ fi' = 1
          /\ UNCHANGED <<files, results, ret, gets>>
     ELSE \E status \in StatusCodes, path \in IndexOptionPages :
            LET out == index_countries_outcome(status, path, PyFalse)
            IN /\ gets' = [gets EXCEPT !.countries = @ + 1]
               /\ IF out.raise # ""
                  THEN Fail(out.raise) /\ UNCHANGED files
                  ELSE /\ index_countries_csv' =
                            IF out.write THEN to_csv(out.df) ELSE index_countries_csv
                       /\ countries' = out.df
                       /\ pc' = "pass2"
                       /\ ci' = 1
                       /\ fi' = 1
                       /\ UNCHANGED <<global_indices_countries_csv, indices_csv,
                                      results, ret>>
  /\ UNCHANGED <<call, before, rows_seen>>

\* Pass 2, lines 146-222: one listing page, of the country row countries[ci]
\* and the filter indices_filters[fi]; row['id'] raises KeyError on a table
\* without id column; in test mode the row loop breaks after its first row
\* and the country loop after its first country
Pass2Listing ==
  /\ pc = "pass2"
  /\ IF "id" \notin DOMAIN countries.rows[ci]
     THEN /\ Fail("KeyError")
          /\ UNCHANGED <<gets, rows_seen>>
     ELSE \E status \in StatusCodes :
       IF status # 200
       THEN /\ Fail("ConnectionError")
            /\ gets' = [gets EXCEPT !.pass2 = @ + 1]
            /\ UNCHANGED rows_seen
       ELSE \E n \in PageNumbers :
              LET new == Pass2Records[n, countries.rows[ci].country, fi,
                                      build_test_mode]
                  leave == /\ fi = Len(Pass2Filters)
                           /\ build_test_mode \/ ci = Len(countries.rows)
              IN /\ Len(results) + Len(new) <= MaxResults
                 /\ \E bad \in FirstBadInfo(new) :
                      /\ gets' = [gets EXCEPT !.pass2 = @ + 1,
                                              !.info = @ + InfoGets(new, bad)]
                      /\ rows_seen' =
                           IF build_test_mode
                           THEN [pass |-> "pass2",
                                 rows |-> Pass2Rows[n, build_test_mode]]
                           ELSE rows_seen
                      /\ IF bad # 0
                         THEN Fail("ConnectionError")
                         ELSE /\ results' = results \o new
                              /\ fi' = IF fi = Len(Pass2Filters) THEN 1 ELSE fi + 1
                              /\ ci' = IF fi = Len(Pass2Filters) THEN ci + 1 ELSE ci
                              /\ pc' = IF leave THEN "pass3" ELSE "pass2"
                              /\ UNCHANGED <<countries, ret>>
  /\ UNCHANGED <<files, call, before>>

\* Pass 3, lines 251-313: the listing page of the filter indices_filters[fi];
\* a row without flag title raises AttributeError; in test mode the filter
\* loop breaks after the first page that has rows
Pass3Listing ==
  /\ pc = "pass3"
  /\ \E status \in StatusCodes :
       IF status # 200
       THEN /\ Fail("ConnectionError")
            /\ gets' = [gets EXCEPT !.pass3 = @ + 1]
            /\ UNCHANGED rows_seen
       ELSE \E n \in PageNumbers :
              LET new == Pass3Records[n, fi]
                  leave == \/ fi = Len(Pass3Filters)
                           \/ PageRows[n] > 0 /\ build_test_mode
              IN /\ Len(results) + Len(new) <= MaxResults
                 /\ \E bad \in FirstBadInfo(new) :
                      /\ gets' = [gets EXCEPT !.pass3 = @ + 1,
                                              !.info = @ + InfoGets(new, bad)]
                      /\ rows_seen' =
                           IF build_test_mode /\ bad = 0
                           THEN [pass |-> "pass3", rows |-> Pass3Rows[n]]
                           ELSE rows_seen
                      /\ IF bad # 0
                         THEN Fail("ConnectionError")
                         ELSE IF NoFlagPage[n]
                         THEN Fail("AttributeError")
                         ELSE /\ results' = results \o new
                              /\ fi' = fi + 1
                              /\ pc' = IF leave THEN "finalize" ELSE "pass3"
                              /\ UNCHANGED <<countries, ci, ret>>
  /\ UNCHANGED <<files, call, before>>

\* what the caller of retrieve_indices does with the table it returns
after_build(df, file) ==
  CASE call.fn = "retrieve_indices" -> Return("DataFrame", df)
    [] call.fn = "indices_as_df" -> indices_as_df_tail(df, call.country, file)
    [] call.fn = "indices_as_list" -> indices_as_list_tail(df, call.country, file)
    [] call.fn = "indices_as_dict" ->
         indices_as_dict_tail(df, call.country, call.columns, call.as_json, file)

\* lines 315-329: a DataFrame made of no record has no column: KeyError is
\* raised for 'tag' by drop_duplicates (line 322) or, where pandas returns an
\* empty table from it unchanged, for 'country' by sort_values (line 323);
\* the file is written unless in test mode
Finalize ==
  /\ pc = "finalize"
  /\ IF results = <<>>
     THEN Fail("KeyError") /\ UNCHANGED files
     ELSE \E df \in finalize(results) :
            /\ indices_csv' = IF build_test_mode THEN indices_csv ELSE to_csv(df)
            /\ Finish(after_build(df, indices_csv'))
            /\ UNCHANGED <<index_countries_csv, global_indices_countries_csv>>
  /\ UNCHANGED <<call, before, gets, rows_seen>>

\* ------------------------------------------------------ the country listers

\* retrieve_index_countries(test_mode), lines 423-467
retrieve_index_countries(test_mode) ==
  /\ pc = "idle"
  /\ call' = [fn |-> "retrieve_index_countries", test_mode |-> test_mode]
  /\ before' = files
  /\ IF ~ isinstance_bool(test_mode)
     THEN Fail("ValueError") /\ UNCHANGED <<files, gets>>
     ELSE \E status \in StatusCodes, path \in IndexOptionPages :
            LET out == index_countries_outcome(status, path, test_mode)
            IN /\ gets' = [gets EXCEPT !.countries = @ + 1]
               /\ IF out.raise # ""
                  THEN Fail(out.raise) /\ UNCHANGED files
                  ELSE /\ index_countries_csv' =
                            IF out.write THEN to_csv(out.df) ELSE index_countries_csv
                       /\ Done(Return("DataFrame", out.df))
                       /\ UNCHANGED <<global_indices_countries_csv, indices_csv>>
  /\ UNCHANGED rows_seen

\* retrieve_global_indices_countries(test_mode), lines 493-540
retrieve_global_indices_countries(test_mode) ==
  /\ pc = "idle"
  /\ call' = [fn |-> "retrieve_global_indices_countries", test_mode |-> test_mode]
  /\ before' = files
  /\ IF ~ isinstance_bool(test_mode)
     THEN Fail("ValueError") /\ UNCHANGED <<files, gets>>
     ELSE \E status \in StatusCodes, path \in GlobalOptionPages :
            LET out == global_countries_outcome(status, path, test_mode)
            IN /\ gets' = [gets EXCEPT !.countries = @ + 1]
               /\ IF out.raise # ""
                  THEN Fail(out.raise) /\ UNCHANGED files
                  ELSE /\ global_indices_countries_csv' =
                            IF out.write THEN to_csv(out.df)
                            ELSE global_indices_countries_csv
                       /\ Done(Return("DataFrame", out.df))
                       /\ UNCHANGED <<index_countries_csv, indices_csv>>
  /\ UNCHANGED rows_seen

\* ---------------------------------------------------------- the query layer

\* index_countries_as_list(), lines 558-568
index_countries_as_list ==
  /\ pc = "idle"
  /\ call' = [fn |-> "index_countries_as_list"]
  /\ before' = files
  /\ Finish(index_countries_as_list_outcome(indices_csv))
  /\ UNCHANGED <<files, gets, rows_seen>>

\* indices_as_df(country), lines 598-619: indices.csv is read, or
\* retrieve_indices() is called when it does not exist
indices_as_df(country) ==
  /\ pc = "idle"
  /\ call' = [fn |-> "indices_as_df", country |-> country]
  /\ before' = files
  /\ IF country # None /\ ~ isinstance_str(country) THEN Fail("ValueError")
     ELSE IF indices_csv.exists
     THEN Finish(indices_as_df_tail(read_csv(indices_csv), country, indices_csv))
     ELSE BeginBuild
  /\ UNCHANGED <<files, gets, rows_seen>>

\* indices_as_list(country), lines 647-665
indices_as_list(country) ==
  /\ pc = "idle"
  /\ call' = [fn |-> "indices_as_list", country |-> country]
  /\ before' = files
  /\ IF country # None /\ ~ isinstance_str(country) THEN Fail("ValueError")
     ELSE IF indices_csv.exists
     THEN Finish(indices_as_list_tail(read_csv(indices_csv), country, indices_csv))
     ELSE BeginBuild
  /\ UNCHANGED <<files, gets, rows_seen>>

\* indices_as_dict(country, columns, as_json), lines 706-743
indices_as_dict(country, columns, as_json) ==
  /\ pc = "idle"
  /\ call' = [fn |-> "indices_as_dict", country |-> country, columns |-> columns,
              as_json |-> as_json]
  /\ before' = files
  /\ IF country # None /\ ~ isinstance_str(country) THEN Fail("ValueError")
     ELSE IF ~ isinstance_bool(as_json) THEN Fail("ValueError")
     ELSE IF indices_csv.exists
     THEN Finish(indices_as_dict_tail(read_csv(indices_csv), country, columns,
                                      as_json, indices_csv))
     ELSE BeginBuild
  /\ UNCHANGED <<files, gets, rows_seen>>

\* ----------------------------------------------------------- specifications

\* the files a build starts from
BigIndexCountries == to_csv(DataFrame(index_country_entries(<<O_world, O_uk, O_at>>)))

BigGlobalCountries ==
  to_csv(DataFrame(global_country_entries(<<G_all, G_de, G_at>>, FALSE)))

SmallIndexCountries == to_csv(DataFrame(index_country_entries(<<O_world, O_uk>>)))

SmallGlobalCountries ==
  to_csv(DataFrame(global_country_entries(<<G_all, G_de>>, FALSE)))

\* a catalog a build has written
SampleCatalog ==
  to_csv(CHOOSE df \in finalize(Pass3Records[
           CHOOSE n \in PageNumbers : Len(Pass3Records[n, 1]) = 1, 1]) : TRUE)

InitCall ==
  /\ pc = "idle"
  /\ call = NoCall
  /\ countries = NoTable
  /\ ci = 0
  /\ fi = 0
  /\ results = <<>>
  /\ ret = Running
  /\ before = files
  /\ gets = NoGets
  /\ rows_seen = NoRows

Init ==
  /\ index_countries_csv \in {Absent, BigIndexCountries}
  /\ global_indices_countries_csv \in {Absent, BigGlobalCountries}
  /\ indices_csv \in {Absent, SampleCatalog}
  /\ InitCall

Build ==
  \/ Pass1Listing
  \/ LoadGlobalCountries
  \/ Pass2Listing
  \/ Pass3Listing
  \/ Finalize

Next ==
  \/ \E test_mode \in FlagArgs : retrieve_indices(test_mode)
  \/ \E test_mode \in FlagArgs : retrieve_index_countries(test_mode)
  \/ \E test_mode \in FlagArgs : retrieve_global_indices_countries(test_mode)
  \/ Build

\* the builder and the listers, from the files a build can start from
Spec == Init /\ [][Next]_vars

\* the records of the catalogs the query layer is run on: those of the one-row
\* pages of the first filter of Pass 1, of `bonds` in Pass 2 and of
\* `commodities` in Pass 3
CatalogRecords ==
  UNION { Range(Pass1Records[n, c, 1]) :
            n \in { m \in PageNumbers : PageRows[m] = 1 }, c \in Pass1Countries }
  \cup UNION { Range(Pass2Records[n, c, 3, FALSE]) :
            n \in { m \in PageNumbers : PageRows[m] = 1 }, c \in Pass2Countries }
  \cup UNION { Range(Pass3Records[n, 6]) :
            n \in { m \in PageNumbers : PageRows[m] = 1 } }

\* the catalogs a build writes from up to MaxCatalogRows of them
Catalogs ==
  { to_csv(df) :
      df \in UNION { finalize(r) :
                       r \in UNION { [1..k -> CatalogRecords] :
                                       k \in 1..MaxCatalogRows } } }

\* an indices.csv that holds the header line and no row
HeaderOnlyCatalog ==
  [exists |-> TRUE, columns |-> Range(CatalogColumns), rows |-> <<>>]

InitQuery ==
  /\ index_countries_csv \in {Absent, SmallIndexCountries}
  /\ global_indices_countries_csv \in {Absent, SmallGlobalCountries}
  /\ indices_csv \in {Absent, HeaderOnlyCatalog} \cup Catalogs
  /\ InitCall

NextQuery ==
  \/ index_countries_as_list
  \/ \E country \in CountryArgs :
       /\ indices_csv.exists \/ country \in RebuildCountryArgs
       /\ indices_as_df(country)
  \/ \E country \in CountryArgs :
       /\ indices_csv.exists \/ country \in RebuildCountryArgs
       /\ indices_as_list(country)
  \/ \E country \in CountryArgs, columns \in ColumnArgs, as_json \in FlagArgs :
       /\ \/ indices_csv.exists
          \/ /\ country \in RebuildCountryArgs
             /\ columns \in RebuildColumnArgs
             /\ as_json \in RebuildFlagArgs
       /\ indices_as_dict(country, columns, as_json)
  \/ Build

\* the query layer, from the catalogs a build can write
SpecQuery == InitQuery /\ [][NextQuery]_vars

\* ----------------------------------------------------------------- claims

\* a call of retrieve_indices that has returned
BuildReturned == pc = "returned" /\ call.fn = "retrieve_indices"

\* the catalog file was written by the call
CatalogWritten == BuildReturned /\ call.test_mode = PyFalse

UniqueTags(rows) ==
  \A i, j \in 1..Len(rows) : i # j => rows[i].tag # rows[j].tag

\* C1: after every run of retrieve_indices that returns, no two rows of the
\* returned table have the same tag, and no two rows of indices.csv when the
\* run wrote it
C1_UniqueTags ==
  BuildReturned =>
    /\ UniqueTags(ret.value.rows)
    /\ CatalogWritten => UniqueTags(indices_csv.rows)

\* a build that extracted one tag twice has returned and written the catalog
C1_Witness ==
  /\ CatalogWritten
  /\ ~ UniqueTags(results)
  /\ Len(ret.value.rows) < Len(results)
  /\ indices_csv.rows # <<>>

\* the first record of `results` with the tag t
FirstWith(t) ==
  results[CHOOSE i \in 1..Len(results) :
            /\ results[i].tag = t
            /\ \A j \in 1..(i - 1) : results[j].tag # t]

\* C2: of the records extracted with one tag, the row kept in the catalog has
\* the country, name, class and market of the earliest in scan order: so of a
\* record of Pass 1 (market world_indices) when there is one
C2_FirstWins ==
  BuildReturned =>
    \A k \in 1..Len(ret.value.rows) :
      LET row == ret.value.rows[k]
          first == FirstWith(row.tag)
      IN /\ row.country = first.country
         /\ row.name = first.name
         /\ row.class = first.class
         /\ row.market = first.market
         /\ (\E i \in 1..Len(results) :
               results[i].tag = row.tag /\ results[i].market = WORLD_INDICES)
            => row.market = WORLD_INDICES

\* a build has returned that extracted one tag in Pass 1 and again in a later
\* pass, under another country and another name
C2_Witness ==
  /\ BuildReturned
  /\ \E i, j \in 1..Len(results) :
       /\ i < j
       /\ results[i].tag = results[j].tag
       /\ results[i].market = WORLD_INDICES
       /\ results[j].market = GLOBAL_INDICES
       /\ results[i].country # results[j].country
       /\ results[i].name # results[j].name

\* C3: after every run of retrieve_indices that returns, the rows of the
\* returned table, and of indices.csv when written, are in non-decreasing
\* order of country, and the index of the returned table is 0..n-1
C3_SortedDense ==
  BuildReturned =>
    /\ \A k \in 1..(Len(ret.value.rows) - 1) :
         cell_le(ret.value.rows[k].country, ret.value.rows[k + 1].country)
    /\ ret.value.index = [k \in 1..Len(ret.value.rows) |-> k - 1]
    /\ CatalogWritten =>
         \A k \in 1..(Len(indices_csv.rows) - 1) :
           cell_le(indices_csv.rows[k].country, indices_csv.rows[k + 1].country)

\* a build has returned and written two rows it had extracted in the
\* opposite order of country
C3_Witness ==
  /\ CatalogWritten
  /\ Len(ret.value.rows) = 2
  /\ Len(indices_csv.rows) = 2
  /\ str_lt(results[2].country, results[1].country)

\* a call of retrieve_indices with a bool for test_mode
BuildCalled == call.fn = "retrieve_indices" /\ isinstance_bool(call.test_mode)

\* C4: a build changes the persisted files only when it completes: as long as
\* retrieve_indices has not returned, and so when it has raised for a
\* response other than 200, the three files are as they were when it began
C4_AllOrNothing ==
  (BuildCalled /\ pc # "returned") => files = before

\* C5: when retrieve_indices begins with index_countries.csv or
\* global_indices_countries.csv missing, it has called a country lister by
\* the time it ends, and it ends right after the lister with an error other
\* than the transport error only if the lister found no country
C5_MissingFileCallsLister ==
  (BuildCalled /\ pc \in {"returned", "raised"}
     /\ (~ before[1].exists \/ ~ before[2].exists)) =>
    /\ ~ before[1].exists => gets.countries >= 1
    /\ (pc = "raised" /\ gets.countries >= 1 /\ gets.pass2 = 0 /\ gets.pass3 = 0
          /\ ret.error # "ConnectionError")
       => ret.error = "RuntimeError"

\* a call of retrieve_indices in test mode
TestBuild == call.fn = "retrieve_indices" /\ call.test_mode = PyTrue

\* C6: retrieve_indices(test_mode=True) writes nothing: the three files are
\* at every point of the call as they were when it began
C6_TestModeWritesNothing == TestBuild => files = before

\* C7, as stated: in test mode each pass fetches one listing page at most, of
\* one country and one filter, and goes through one row of it at most
C7_EveryLoopOnce ==
  TestBuild =>
    /\ gets.pass1 <= 1
    /\ gets.pass2 <= 1
    /\ gets.pass3 <= 1
    /\ rows_seen.rows <= 1

\* C7, amended: in test mode Pass 1 and Pass 2 handle one country at most,
\* under every filter; Pass 2 goes through one row at most of each page;
\* Pass 3 stops after the first page that has rows; so each pass fetches at
\* most as many listing pages as it has filters
C7_TestModeBounds ==
  TestBuild =>
    /\ gets.pass1 <= Len(Pass1Filters)
    /\ gets.pass2 <= Len(Pass2Filters)
    /\ gets.pass3 <= Len(Pass3Filters)
    /\ pc \in {"pass1", "pass2"} => ci = 1
    /\ rows_seen.pass = "pass2" => rows_seen.rows <= 1
    /\ (rows_seen.pass = "pass3" /\ rows_seen.rows > 0) => pc # "pass3"

\* a build in test mode has returned, from country lists of two countries
\* each, after the pages of all the filters of Pass 1 and of Pass 2 and a
\* page of Pass 3 of which it went through both rows
C7_Witness ==
  /\ TestBuild
  /\ pc = "returned"
  /\ Len(before[1].rows) = 2
  /\ Len(before[2].rows) = 2
  /\ gets.pass1 = Len(Pass1Filters)
  /\ gets.pass2 = Len(Pass2Filters)
  /\ rows_seen = [pass |-> "pass3", rows |-> 2]
  /\ Len(ret.value.rows) = 2

\* a call of indices_as_dict with a columns list that has a name outside
\* country, name, full_name, symbol, currency, class, market
BogusColumns ==
  /\ call.fn = "indices_as_dict"
  /\ isinstance_list(call.columns)
  /\ \E c \in Range(call.columns) : c \notin Range(QueryColumns)

\* C8: indices_as_dict called with such a list raises ValueError, and at no
\* point of the call has a file been created or changed or a GET been made
C8_BogusColumnsNoEffect ==
  BogusColumns =>
    /\ files = before
    /\ gets = NoGets
    /\ pc \in {"returned", "raised"} => ret = Raise("ValueError")

\* the call has ended with the outcome r
Ended(r) ==
  /\ pc \in {"returned", "raised"}
  /\ ret.kind = r.kind
  /\ IF r.kind = "raise" THEN ret.error = r.error ELSE ret.value = r.value

\* C9: on every indices.csv and for every country, indices_as_dict with the
\* default columns returns the records of the rows indices_as_df returns for
\* that country (as a list, or as its JSON document), and no records where
\* indices_as_df returns no table
C9_SameFiltering ==
  (/\ call.fn = "indices_as_dict"
   /\ call.columns = None
   /\ isinstance_bool(call.as_json)
   /\ call.country = None \/ isinstance_str(call.country)
   /\ before[3].exists
   /\ pc \in {"returned", "raised"}) =>
    LET q == indices_as_df_tail(read_csv(before[3]), call.country, before[3])
        records == to_dict_records(q.value, columns_tolist(q.value))
    IN IF q.kind = "DataFrame"
       THEN Ended(IF call.as_json = PyTrue
                  THEN Return("json", json_dumps(records))
                  ELSE Return("dict", records))
       ELSE Ended(q)

\* normalize(text): trimmed, in lower case, without diacritics
normalize(text) == unidecode(lower(strip(text)))

\* C10: on every indices.csv, indices_as_df(country) returns the table of the
\* rows of the catalog whose country is normalize(country), without the
\* columns tag and id: a table of no row when there is none
C10_QueryByCountry ==
  (/\ call.fn = "indices_as_df"
   /\ isinstance_str(call.country)
   /\ before[3].exists
   /\ pc \in {"returned", "raised"}) =>
    Ended(Return("DataFrame",
                 reset_index(where_country(drop_tag_id(read_csv(before[3])),
                                           normalize(call.country)))))

\* two cells hold the same value: both missing, or the same str
SameCell(a, b) == IF IsNull(a) \/ IsNull(b) THEN IsNull(a) /\ IsNull(b) ELSE a = b

\* what indices_as_dict() gives on the indices.csv of the present state
Exported ==
  indices_as_dict_tail(read_csv(indices_csv), None, None, PyFalse, indices_csv)

\* C11: after a build that wrote indices.csv, indices_as_dict() on that file
\* gives, row for row, the country, name, full_name, symbol, currency, class
\* and market of the table the build returned (a missing symbol or currency
\* staying missing), and no other key
C11_RoundTrip ==
  CatalogWritten =>
    /\ Exported.kind = "dict"
    /\ Len(Exported.value) = Len(ret.value.rows)
    /\ \A i \in 1..Len(ret.value.rows) :
         /\ DOMAIN Exported.value[i] = Range(QueryColumns)
         /\ \A c \in Range(QueryColumns) :
              SameCell(Exported.value[i][c], ret.value.rows[i][c])

\* C12: index_countries_as_list makes no GET and writes no file; it raises
\* FileNotFoundError when indices.csv does not exist, raises an error when
\* the table read from it has no rows, and returns a list otherwise
C12_ListCountries ==
  (call.fn = "index_countries_as_list" /\ pc \in {"returned", "raised"}) =>
    /\ gets = NoGets
    /\ files = before
    /\ IF ~ before[3].exists
       THEN ret.kind = "raise" /\ ret.error = "FileNotFoundError"
       ELSE IF before[3].rows = <<>>
       THEN ret.kind = "raise"
       ELSE ret.kind = "list" /\ Len(ret.value) >= 1

\* the country the claim gives the records of a row of Pass 3, by the title
\* of its region flag
RegionCountry(title) ==
  IF title = <<>> THEN <<"w","o","r","l","d">>
  ELSE IF title = S_Euro_Zone THEN <<"e","u","r","o"," ","z","o","n","e">>
  ELSE normalize(title)

\* C13: a step of Pass 3 aborts the build only for a response other than 200
\* (never for the region of a row), and the records it adds have the country
\* their row's region flag gives: "world" for the empty title, "euro zone"
\* for "Euro Zone", the normalized title otherwise
C13_RegionNeverAborts ==
  [][pc = "pass3" =>
       IF pc' = "raised" THEN ret'.error = "ConnectionError"
       ELSE \A k \in (Len(results) + 1)..Len(results') :
              \E row \in RowTemplates :
                /\ flag_title(row) # None
                /\ results'[k].id = replace(row.id, S_pair, <<>>)
                /\ results'[k].country = RegionCountry(flag_title(row))]_vars

\* C14: when the three passes have ended, every response having been 200,
\* with no record extracted, retrieve_indices returns a table of no row and
\* leaves the three files as they were
C14_EmptyBuild ==
  [][(pc = "finalize" /\ results = <<>> /\ call.fn = "retrieve_indices") =>
       /\ pc' = "returned"
       /\ ret'.kind = "DataFrame"
       /\ ret'.value.rows = <<>>
       /\ files' = before]_vars

\* a call of one of the two country listers that has ended
ListerEnded ==
  /\ call.fn \in {"retrieve_index_countries", "retrieve_global_indices_countries"}
  /\ pc \in {"returned", "raised"}

\* the country file of the lister called: its place in `files`
ListerFile == IF call.fn = "retrieve_index_countries" THEN 1 ELSE 2

\* the tables a lister can extract, all entries kept, from the pages it is
\* answered with
FullSets ==
  IF call.fn = "retrieve_index_countries"
  THEN { index_country_entries(p) : p \in IndexOptionPages }
  ELSE { global_country_entries(p, FALSE) : p \in GlobalOptionPages }

\* C15: a country lister stores its file only when it succeeds outside test
\* mode, and then the file is the whole table extracted, of one row at least;
\* when it raises (response not 200, no entry extracted) or runs in test mode
\* the three files are as before the call; in test mode
\* retrieve_global_indices_countries returns exactly one entry
C15_ListerPersistsOnSuccess ==
  ListerEnded =>
    /\ \A f \in 1..3 : f # ListerFile => files[f] = before[f]
    /\ IF ret.kind = "DataFrame" /\ call.test_mode = PyFalse
       THEN /\ Len(ret.value.rows) >= 1
            /\ ret.value.rows \in FullSets
            /\ files[ListerFile] = to_csv(ret.value)
       ELSE files = before
    /\ (ret.kind = "raise" /\ isinstance_bool(call.test_mode)) =>
          ret.error \in {"ConnectionError", "RuntimeError"}
    /\ (call.fn = "retrieve_global_indices_countries"
          /\ call.test_mode = PyTrue /\ ret.kind = "DataFrame") =>
          Len(ret.value.rows) = 1

\* retrieve_index_countries(test_mode=True) has returned a table of two
\* entries next to a file it left alone
C15_Witness ==
  /\ ListerEnded
  /\ call.fn = "retrieve_index_countries"
  /\ call.test_mode = PyTrue
  /\ ret.kind = "DataFrame"
  /\ Len(ret.value.rows) = 2
  /\ before[1].exists
  /\ files = before

\* the values Pass 3 can give a region: those of the rows that have a flag
\* title
RegionValues ==
  { region_of(row) : row \in { r \in RowTemplates : flag_title(r) # None } }

\* a record whose class, market and country agree with one of the passes
Coherent(row) ==
  /\ row.market \in {WORLD_INDICES, GLOBAL_INDICES}
  /\ row.market = WORLD_INDICES =>
       /\ row.class \in Range(Pass1Filters)
       /\ row.country \notin {S_uk, S_usa}
  /\ row.class \in {<<"bonds">>, <<"commodities">>} => row.market = GLOBAL_INDICES
  /\ row.class = <<"commodities">> => row.country \in RegionValues

\* C16: every record a build has extracted, and every row of the table it
\* returns after the dedup, has a class and a country that agree with its
\* market: world_indices goes with one of the four classes of Pass 1 and never
\* with the country "uk" or "usa"; bonds and commodities go with
\* global_indices; commodities goes with a region as country
C16_RowsCoherent ==
  BuildCalled =>
    /\ \A i \in 1..Len(results) : Coherent(results[i])
    /\ BuildReturned => \A i \in 1..Len(ret.value.rows) : Coherent(ret.value.rows[i])

\* a build has returned a table with a row of Pass 1 under the country
\* "united kingdom" and a row of class commodities
C16_Witness ==
  /\ BuildReturned
  /\ \E i, j \in 1..Len(ret.value.rows) :
       /\ ret.value.rows[i].market = WORLD_INDICES
       /\ ret.value.rows[i].country = S_united_kingdom
       /\ ret.value.rows[j].class = <<"commodities">>
       /\ ret.value.rows[j].market = GLOBAL_INDICES

====
